---------------------------- MODULE Spec2Model ----------------------------
(***************************************************************************)
(* A model of hyperlearn/utils.py: the numeric kernels reflect,            *)
(* _XXT_sparse, memoryGram, _svdCond, svd_flip and fastDot.                *)
(*                                                                         *)
(* One run of the model is one use of one kernel: Init draws the kernel    *)
(* and its arguments, the kernel's actions carry out the call.  Arrays are *)
(* functions on 0..len-1, as numpy indexes them.  The two kernels with a   *)
(* parallel variant (numba prange) are modelled one loop iteration at a    *)
(* time, so that the iterations of different worker threads interleave.    *)
(***************************************************************************)
EXTENDS Integers, Sequences, FiniteSets, TLC

VARIABLES
    kernel,     \* the kernel this run exercises
    rX,         \* reflect: the matrix X, mutated in place
    rX0,        \* reflect: X as first passed in
    rX1,        \* reflect: X as the first call returned it
    rJobs,      \* reflect: n_jobs
    rCall,      \* reflect: 1 during the first call, 2 during the second
    rPc,        \* reflect: per outer iteration i, the inner counter j (i = finished)
    rReads,     \* reflect: <<iteration, cell>> read during the current call
    rWrites,    \* reflect: <<iteration, cell>> written during the current call
    xIn,        \* _XXT_sparse: the arguments val, colPointer, rowIndices, n, p
    xJobs,      \* _XXT_sparse: n_jobs
    xD,         \* _XXT_sparse: the output matrix D
    xBuf,       \* _XXT_sparse: the scratch arrays in memory; array 0 is P
    xRef,       \* _XXT_sparse: per outer iteration k, the array its R names
    xStage,     \* _XXT_sparse: per outer iteration k, where it stands
    xJ,         \* _XXT_sparse: per outer iteration k, the inner counter j
    xWrites,    \* _XXT_sparse: <<iteration, cell of D>> written so far
    mShape,     \* memoryGram: X.shape
    mDtype,     \* memoryGram: str(X.dtype)
    mFree,      \* memoryGram: virtual_memory().free, in bytes
    mOut,       \* memoryGram: "pending", then "returned" or "raised"
    sS,         \* _svdCond: the caller's array S, mutated in place
    sS0,        \* _svdCond: S as passed in
    sU,         \* _svdCond: the columns of U
    sVT,        \* _svdCond: the rows of VT
    sT,         \* _svdCond: S.dtype.char.lower()
    sAlpha,     \* _svdCond: alpha
    sRet,       \* _svdCond: the tuple returned
    sPc,        \* _svdCond: "call", then "returned"
    fU,         \* svd_flip: U as passed in
    fVT,        \* svd_flip: VT as passed in
    fDec,       \* svd_flip: U_decision
    fOut,       \* svd_flip: what svd_flip(U, VT) returned
    fOutNeg,    \* svd_flip: what svd_flip(-U, -VT) returned
    fPc,        \* svd_flip: "first", "second" (one call made), then "returned"
    dA,         \* fastDot: A.shape
    dB,         \* fastDot: B.shape
    dC,         \* fastDot: C.shape
    dOrder      \* fastDot: the order evaluated, "forward" or "backward"

rVars == <<rX, rX0, rX1, rJobs, rCall, rPc, rReads, rWrites>>
xVars == <<xIn, xJobs, xD, xBuf, xRef, xStage, xJ, xWrites>>
mVars == <<mShape, mDtype, mFree, mOut>>
sVars == <<sS, sS0, sU, sVT, sT, sAlpha, sRet, sPc>>
fVars == <<fU, fVT, fDec, fOut, fOutNeg, fPc>>
dVars == <<dA, dB, dC, dOrder>>
vars == <<kernel, rVars, xVars, mVars, sVars, fVars, dVars>>

(***************************************************************************)
(* Bounds of the model.                                                    *)
(***************************************************************************)
\* largest n of the square matrices handed to reflect
MaxN == 3

\* largest n, largest p and largest number of stored entries of the sparse
\* matrices handed to _XXT_sparse with n_jobs = 1
XMaxRows == 3
XMaxCols == 2
XMaxNnz == 4

\* the same for the sparse matrices handed to _XXT_sparse with n_jobs != 1
PMaxRows == 3
PMaxCols == 2
PMaxNnz == 2

\* largest virtual_memory().free handed to memoryGram, in KiB
MMaxFreeKiB == 200

\* longest S handed to _svdCond
SMaxLen == 3

\* svd_flip: most rows of U (columns of VT) when U (VT) decides the signs, and
\* most columns of VT (rows of U) otherwise
FMaxLen == 2
FMaxFollow == 1

\* fastDot: the dimensions 0 .. DMaxDim are tried, besides 5 and 1000
DMaxDim == 2

\* the entries a dense matrix is filled with
Vals == {0, 1}

\* the values a sparse matrix stores
XVals == {1, 2}

\* the row and column counts of the matrices handed to memoryGram
MDims == {0, 1, 151, 152, 153}

\* the entries of U and VT handed to svd_flip, and the numbers of components
FVals == {-1, 0, 1}
FRanks == {1, 2}

Idle == "idle"

zeros(p) == [z \in 0 .. p-1 |-> 0]

\* A run of one kernel leaves the other kernels' variables alone.
IdleReflect ==
    /\ rX = Idle /\ rX0 = Idle /\ rX1 = Idle /\ rJobs = Idle
    /\ rCall = Idle /\ rPc = Idle /\ rReads = Idle /\ rWrites = Idle

IdleXXT ==
    /\ xIn = Idle /\ xJobs = Idle /\ xD = Idle /\ xBuf = Idle
    /\ xRef = Idle /\ xStage = Idle /\ xJ = Idle /\ xWrites = Idle

IdleMemory == mShape = Idle /\ mDtype = Idle /\ mFree = Idle /\ mOut = Idle

IdleSvdCond ==
    /\ sS = Idle /\ sS0 = Idle /\ sU = Idle /\ sVT = Idle
    /\ sT = Idle /\ sAlpha = Idle /\ sRet = Idle /\ sPc = Idle

IdleFlip ==
    /\ fU = Idle /\ fVT = Idle /\ fDec = Idle
    /\ fOut = Idle /\ fOutNeg = Idle /\ fPc = Idle

IdleDot == dA = Idle /\ dB = Idle /\ dC = Idle /\ dOrder = Idle

\* The variables of every kernel but the one named.
OthersIdle(k) ==
    /\ IF k = "reflect" THEN TRUE ELSE IdleReflect
    /\ IF k = "xxt" THEN TRUE ELSE IdleXXT
    /\ IF k = "memoryGram" THEN TRUE ELSE IdleMemory
    /\ IF k = "svdCond" THEN TRUE ELSE IdleSvdCond
    /\ IF k = "svd_flip" THEN TRUE ELSE IdleFlip
    /\ IF k = "fastDot" THEN TRUE ELSE IdleDot

len(X) == Cardinality(DOMAIN X)

SquareMatrices(n) == [0 .. n-1 -> [0 .. n-1 -> Vals]]

\* The matrices reflect is handed: the strict lower triangle and the diagonal
\* hold any values, the upper triangle (not yet defined) holds one filler value.
LowerMatrices(n) ==
    {M \in SquareMatrices(n) :
        \E u \in Vals : \A i, j \in 0 .. n-1 : i < j => M[i][j] = u}

(***************************************************************************)
(* reflect / _reflect                                                      *)
(*    n = len(X)                                                           *)
(*    for i in prange(1, n):                                               *)
(*        Xi = X[i]                                                        *)
(*        for j in range(i):                                               *)
(*            X[j, i] = Xi[j]                                              *)
(***************************************************************************)
\* The cell Xi[j] stands for: Xi = X[i] is a view of row i, not a copy.
ReflectReadSelf(i, j) == <<j, i>>
ReflectRead(i, j) == <<i, j>>

\* The cell the assignment X[j, i] = ... stores into.
ReflectWriteLower(i, j) == <<i, j>>
ReflectWrite(i, j) == <<j, i>>

\* The value stored: X[j, i] = Xi[j].
ReflectValueAdd(M, i, j) == M[ReflectRead(i, j)[1]][ReflectRead(i, j)[2]] + M[j][i]
ReflectValue(M, i, j) == M[ReflectRead(i, j)[1]][ReflectRead(i, j)[2]]

\* One pass of the inner loop body.
ReflectStore(M, i, j) ==
    LET w == ReflectWrite(i, j)
    IN  [M EXCEPT ![w[1]][w[2]] = ReflectValue(M, i, j)]

\* The inner loop, for j in range(i), from j on.
RECURSIVE ReflectRow(_, _, _)
ReflectRow(M, i, j) ==
    IF j >= i THEN M ELSE ReflectRow(ReflectStore(M, i, j), i, j + 1)

\* The outer loop run in order, for i in range(1, n), from i on: reflect_single.
RECURSIVE ReflectFrom(_, _)
ReflectFrom(M, i) ==
    IF i >= len(M) THEN M ELSE ReflectFrom(ReflectRow(M, i, 0), i + 1)

reflect_single(M) == ReflectFrom(M, 1)

ReflectIterations(M) == 1 .. len(M) - 1

ReflectStart(M) == [i \in ReflectIterations(M) |-> 0]

ReflectDone == \A i \in DOMAIN rPc : rPc[i] = i

\* reflect(X, n_jobs): reflect_parallel when n_jobs != 1, else reflect_single.
\* In reflect_single iteration i starts once the iterations before it are over;
\* in reflect_parallel prange hands the iterations to threads in any order.
ReflectMayRun(i) ==
    \/ rJobs # 1
    \/ \A h \in DOMAIN rPc : h < i => rPc[h] = h

InitReflect ==
    /\ kernel = "reflect"
    /\ OthersIdle("reflect")
    /\ \E n \in 0 .. MaxN : rX \in LowerMatrices(n)
    /\ rX0 = rX
    /\ rX1 = Idle
    /\ rJobs \in {1, 2}
    /\ rCall = 1
    /\ rPc = ReflectStart(rX)
    /\ rReads = {}
    /\ rWrites = {}

\* One pass of the body of the inner loop of iteration i.
ReflectStep(i) ==
    /\ kernel = "reflect"
    /\ i \in DOMAIN rPc
    /\ rPc[i] < i
    /\ ReflectMayRun(i)
    /\ rX' = ReflectStore(rX, i, rPc[i])
    /\ rReads' = rReads \cup {<<i, ReflectRead(i, rPc[i])>>}
    /\ rWrites' = rWrites \cup {<<i, ReflectWrite(i, rPc[i])>>}
    /\ rPc' = [rPc EXCEPT ![i] = @ + 1]
    /\ UNCHANGED <<kernel, rX0, rX1, rJobs, rCall, xVars, mVars, sVars, fVars, dVars>>

\* The first call returns X; the caller hands the result to reflect again.
ReflectAgain ==
    /\ kernel = "reflect"
    /\ rCall = 1
    /\ ReflectDone
    /\ rX1' = rX
    /\ rCall' = 2
    /\ rPc' = ReflectStart(rX)
    /\ rReads' = {}
    /\ rWrites' = {}
    /\ UNCHANGED <<kernel, rX, rX0, rJobs, xVars, mVars, sVars, fVars, dVars>>

NextReflect == (\E i \in 1 .. MaxN : ReflectStep(i)) \/ ReflectAgain

SpecReflect == InitReflect /\ [][NextReflect]_vars


(***************************************************************************)
(* _XXT_sparse / XXT_sparse                                                *)
(*    D = zeros((n,n)); P = zeros(p)                                       *)
(*    for k in prange(n-1):                                                *)
(*        R = P.copy(); scatter row k of the sparse matrix into R          *)
(*        for j in prange(k+1, n):                                         *)
(*            s = 0; gather row j against R into s; D[j, k] = s            *)
(***************************************************************************)
\* A sparse matrix in compressed-row form, from the cells it stores (a set of
\* <<row, column>>) and their values; the entries of a row are stored by
\* ascending column.
CellBefore(a, b) == a[1] < b[1] \/ (a[1] = b[1] /\ a[2] < b[2])

\* The cells in storage order, as an array.
RECURSIVE CellOrder(_, _)
CellOrder(cells, b) ==
    IF cells = {} THEN <<>>
    ELSE LET c == CHOOSE c \in cells : \A d \in cells : d = c \/ CellBefore(c, d)
         IN  (b :> c) @@ CellOrder(cells \ {c}, b + 1)

CSR(n, p, cells, v) ==
    LET order == CellOrder(cells, 0)
    IN  [val |-> [b \in DOMAIN order |-> v[order[b]]],
         colPointer |-> [b \in DOMAIN order |-> order[b][2]],
         rowIndices |-> [i \in 0 .. n |-> Cardinality({d \in cells : d[1] < i})],
         n |-> n,
         p |-> p]

\* The scatter loop from position b on:
\*    b = l; for i in range(r-l): x = colPointer[b]; R[x] = val[b]; b += 1
RECURSIVE ScatterFrom(_, _, _, _)
ScatterFrom(R, in, b, r) ==
    IF b >= r THEN R
    ELSE ScatterFrom([R EXCEPT ![in.colPointer[b]] = in.val[b]], in, b + 1, r)

Scatter(R, in, k) == ScatterFrom(R, in, in.rowIndices[k], in.rowIndices[k+1])

\* The gather loop from position c on, s being the sum so far:
\*    for a in range(r-l): z = colPointer[c]; v = R[z]
\*                         if v != 0: s += v*val[c]
\*                         c += 1
RECURSIVE GatherFrom(_, _, _, _, _)
GatherFrom(R, in, c, r, s) ==
    IF c >= r THEN s
    ELSE LET v == R[in.colPointer[c]]
         IN  GatherFrom(R, in, c + 1, r,
                        IF v # 0 THEN s + v * in.val[c] ELSE s)

Gather(R, in, j) == GatherFrom(R, in, in.rowIndices[j], in.rowIndices[j+1], 0)

\* The first j of the inner loop, for j in prange(k+1, n).
GatherFirstDiag(k) == k
GatherFirst(k) == k + 1

\* The inner loop of iteration k from j on, run in order.
RECURSIVE XXTColumn(_, _, _, _, _)
XXTColumn(D, R, in, k, j) ==
    IF j >= in.n THEN D
    ELSE XXTColumn([D EXCEPT ![j][k] = Gather(R, in, j)], R, in, k, j + 1)

\* The outer loop from k on, run in order: _XXT_sparse_single.
RECURSIVE XXTFrom(_, _, _)
XXTFrom(D, in, k) ==
    IF k >= in.n - 1 THEN D
    ELSE XXTFrom(XXTColumn(D, Scatter(zeros(in.p), in, k), in, k, GatherFirst(k)),
                 in, k + 1)

XXT_sparse(in) == XXTFrom([j \in 0 .. in.n - 1 |-> zeros(in.n)], in, 0)

\* The array R names after R = P.copy(): a new array, one per iteration.
\* Array 0 is P itself.
ScratchShared(k) == 0
ScratchRef(k) == k + 1

XXTIterations == DOMAIN xStage

XXTDone == \A k \in XXTIterations : xStage[k] = "done"

\* _XXT_sparse(.., n_jobs): _XXT_sparse_parallel when n_jobs != 1, else
\* _XXT_sparse_single, where iteration k starts once those before it are over.
XXTMayRun(k) ==
    \/ xJobs # 1
    \/ \A h \in XXTIterations : h < k => xStage[h] = "done"

InitXXTWith(jobs, maxRows, maxCols, maxNnz) ==
    /\ kernel = "xxt"
    /\ OthersIdle("xxt")
    /\ xJobs = jobs
    /\ \E n \in 0 .. maxRows, p \in 0 .. maxCols :
         \E cells \in SUBSET ((0 .. n-1) \X (0 .. p-1)) :
            /\ Cardinality(cells) <= maxNnz
            /\ \E v \in [cells -> XVals] : xIn = CSR(n, p, cells, v)
    /\ xD = [j \in 0 .. xIn.n - 1 |-> zeros(xIn.n)]
    /\ xBuf = (0 :> zeros(xIn.p))
    /\ xRef = <<>>
    /\ xStage = [k \in 0 .. xIn.n - 2 |-> "copy"]
    /\ xJ = [k \in 0 .. xIn.n - 2 |-> GatherFirst(k)]
    /\ xWrites = {}

InitXXT ==
    \/ InitXXTWith(1, XMaxRows, XMaxCols, XMaxNnz)
    \/ InitXXTWith(2, PMaxRows, PMaxCols, PMaxNnz)

\* R = P.copy()
XXTCopy(k) ==
    /\ kernel = "xxt"
    /\ k \in XXTIterations
    /\ xStage[k] = "copy"
    /\ XXTMayRun(k)
    /\ xRef' = (k :> ScratchRef(k)) @@ xRef
    /\ xBuf' = (ScratchRef(k) :> xBuf[0]) @@ xBuf
    /\ xStage' = [xStage EXCEPT ![k] = "scatter"]
    /\ UNCHANGED <<kernel, rVars, mVars, sVars, fVars, dVars, xIn, xJobs, xD, xJ, xWrites>>

\* the scatter loop of iteration k
XXTScatter(k) ==
    /\ kernel = "xxt"
    /\ k \in XXTIterations
    /\ xStage[k] = "scatter"
    /\ xBuf' = [xBuf EXCEPT ![xRef[k]] = Scatter(@, xIn, k)]
    /\ xStage' = [xStage EXCEPT ![k] = IF xJ[k] < xIn.n THEN "gather" ELSE "done"]
    /\ UNCHANGED <<kernel, rVars, mVars, sVars, fVars, dVars, xIn, xJobs, xD, xRef, xJ, xWrites>>

\* one pass of the inner loop of iteration k: the gather loop and D[j, k] = s
XXTGather(k) ==
    /\ kernel = "xxt"
    /\ k \in XXTIterations
    /\ xStage[k] = "gather"
    /\ xD' = [xD EXCEPT ![xJ[k]][k] = Gather(xBuf[xRef[k]], xIn, xJ[k])]
    /\ xWrites' = xWrites \cup {<<k, <<xJ[k], k>>>>}
    /\ xJ' = [xJ EXCEPT ![k] = @ + 1]
    /\ xStage' = [xStage EXCEPT ![k] = IF xJ[k] + 1 < xIn.n THEN "gather" ELSE "done"]
    /\ UNCHANGED <<kernel, rVars, mVars, sVars, fVars, dVars, xIn, xJobs, xBuf, xRef>>

NextXXT == \E k \in 0 .. XMaxRows + PMaxRows : XXTCopy(k) \/ XXTScatter(k) \/ XXTGather(k)

SpecXXT == InitXXT /\ [][NextXXT]_vars

(***************************************************************************)
(* memoryGram                                                              *)
(*    n,p = X.shape                                                        *)
(*    free = virtual_memory().free * 0.95                                  *)
(*    byte = 4 if '32' in str(X.dtype) else 8                              *)
(*    size = p if n > p else n                                             *)
(*    memUsage = size**2 * byte                                            *)
(*    if memUsage > free: raise FutureExceedsMemory()                      *)
(***************************************************************************)
MemoryByte(dtype) == IF dtype = "float32" THEN 4 ELSE 8

GramSize(shape) == IF shape[1] > shape[2] THEN shape[2] ELSE shape[1]

GramUsage(shape, dtype) == GramSize(shape) * GramSize(shape) * MemoryByte(dtype)

\* memUsage > virtual_memory().free * 0.95, with both sides times 20
GramExceedsOrEqual(memUsage, free) == 20 * memUsage >= 19 * free
GramExceeds(memUsage, free) == 20 * memUsage > 19 * free

InitMemory ==
    /\ kernel = "memoryGram"
    /\ OthersIdle("memoryGram")
    /\ mShape \in MDims \X MDims
    /\ mDtype \in {"float32", "float64"}
    /\ mFree \in {1024 * f : f \in 0 .. MMaxFreeKiB}
    /\ mOut = "pending"

memoryGram ==
    /\ kernel = "memoryGram"
    /\ mOut = "pending"
    /\ mOut' = IF GramExceeds(GramUsage(mShape, mDtype), mFree)
               THEN "raised" ELSE "returned"
    /\ UNCHANGED <<kernel, rVars, xVars, sVars, fVars, dVars, mShape, mDtype, mFree>>

NextMemory == memoryGram

SpecMemory == InitMemory /\ [][NextMemory]_vars

(***************************************************************************)
(* _svdCond                                                                *)
(*    t = S.dtype.char.lower()                                             *)
(*    cond = (S > (_condition[t] * finfo(t).eps * S[0]))                   *)
(*    rank = cond.sum()                                                    *)
(*    S /= (S**2 + alpha)                                                  *)
(*    return U[:, :rank], S[:rank], VT[:rank]                              *)
(*                                                                         *)
(* A floating-point number is m * 2^e, written [m |-> m, e |-> e], with m  *)
(* a natural number; the numbers used have mantissas short enough for the  *)
(* products below to be exact in float32 and in float64.                   *)
(***************************************************************************)
Dy(m, e) == [m |-> m, e |-> e]

\* x shifted right by k bits: floor(x / 2^k)
RECURSIVE Shr(_, _)
Shr(x, k) == IF k <= 0 \/ x = 0 THEN x ELSE Shr(x \div 2, k - 1)

\* a > b
DyGT(a, b) ==
    IF a.e >= b.e
    THEN a.m > Shr(b.m, a.e - b.e)
    ELSE a.m > 0 /\ b.m <= Shr(a.m - 1, b.e - a.e)

\* The singular values tried, all different: 0, 1000, 1001, 15625, 15626,
\* 2^23 and 2^46.
SVals == {Dy(0, 0), Dy(1000, 0), Dy(1001, 0), Dy(15625, 0), Dy(15626, 0),
          Dy(1, 23), Dy(1, 46)}

\* a * b
DyTimes(a, b) == Dy(a.m * b.m, a.e + b.e)

\* _condition = {'f': 1e3, 'd': 1e6}: 1e3 is 125 * 2^3, 1e6 is 15625 * 2^6
condition(t) == IF t = "f" THEN Dy(125, 3) ELSE Dy(15625, 6)

\* finfo(t).eps: 2^-23 for float32, 2^-52 for float64
eps(t) == IF t = "f" THEN Dy(1, -23) ELSE Dy(1, -52)

\* _condition[t] * finfo(t).eps * S[0]
SvdThreshold(t, S) == DyTimes(DyTimes(condition(t), eps(t)), S[0])

\* cond = (S > threshold), elementwise
SvdKeepsGE(x, threshold) == ~DyGT(threshold, x)
SvdKeeps(x, threshold) == DyGT(x, threshold)

\* rank = cond.sum()
SvdRank(t, S) == Cardinality({i \in DOMAIN S : SvdKeeps(S[i], SvdThreshold(t, S))})

NaN == [nan |-> TRUE]

\* x / (x**2 + alpha), kept as the quotient; 0 / 0 is nan
Ridge(x, alpha) ==
    IF x.m = 0 /\ alpha = 0
    THEN NaN
    ELSE [num |-> x, den |-> [sq |-> Dy(x.m * x.m, 2 * x.e), plus |-> alpha]]

\* A[:rank]: the first rank entries (rows, or columns for U[:, :rank])
Prefix(A, rank) == [i \in 0 .. rank - 1 |-> A[i]]

SortedDescending(S) ==
    \A i \in DOMAIN S : i + 1 \in DOMAIN S => ~DyGT(S[i+1], S[i])

InitSvdCond ==
    /\ kernel = "svdCond"
    /\ OthersIdle("svdCond")
    /\ \E l \in 1 .. SMaxLen : sS \in [0 .. l-1 -> SVals]
    /\ SortedDescending(sS)
    /\ sS0 = sS
    /\ sU = [i \in DOMAIN sS |-> <<"U column", i>>]
    /\ sVT = [i \in DOMAIN sS |-> <<"VT row", i>>]
    /\ sT \in {"f", "d"}
    /\ sAlpha \in {0, 1}
    /\ sRet = Idle
    /\ sPc = "call"

svdCond ==
    /\ kernel = "svdCond"
    /\ sPc = "call"
    /\ sPc' = "returned"
    /\ sS' = [i \in DOMAIN sS |-> Ridge(sS[i], sAlpha)]
    /\ sRet' = [U |-> Prefix(sU, SvdRank(sT, sS)),
                S |-> Prefix(sS', SvdRank(sT, sS)),
                VT |-> Prefix(sVT, SvdRank(sT, sS))]
    /\ UNCHANGED <<kernel, rVars, xVars, mVars, fVars, dVars, sS0, sU, sVT, sT, sAlpha>>

NextSvdCond == svdCond

SpecSvdCond == InitSvdCond /\ [][NextSvdCond]_vars

(***************************************************************************)
(* svd_flip                                                                *)
(*    if U_decision:                                                       *)
(*        max_abs_cols = abs(U).argmax(0)                                  *)
(*        signs = sign( U[max_abs_cols, arange(U.shape[1]) ] )             *)
(*    else:                                                                *)
(*        max_abs_rows = abs(VT).argmax(1)                                 *)
(*        signs = sign( VT[ arange(VT.shape[0]) , max_abs_rows] )          *)
(*    U *= signs                                                           *)
(*    VT *= signs[:,newaxis]                                               *)
(***************************************************************************)
Matrices(rows, cols, values) == [0 .. rows-1 -> [0 .. cols-1 -> values]]

absSigned(x) == x
abs(x) == IF x < 0 THEN -x ELSE x

\* sign, from hyperlearn's numba module: -1, 0 or 1
sign(x) == IF x < 0 THEN -1 ELSE IF x > 0 THEN 1 ELSE 0

\* argmax of a vector: the first index that holds the largest value
argmax(v) ==
    CHOOSE i \in DOMAIN v :
        /\ \A h \in DOMAIN v : v[h] <= v[i]
        /\ \A h \in DOMAIN v : h < i => v[h] < v[i]

\* abs(U).argmax(0)[c]: over the rows, in column c
ArgmaxAbsInColumn(U, c) == argmax([r \in DOMAIN U |-> abs(U[r][c])])

\* abs(VT).argmax(1)[c]: over the columns, in row c
ArgmaxAbsInRow(VT, c) == argmax([z \in DOMAIN VT[c] |-> abs(VT[c][z])])

FlipSigns(U, VT, U_decision) ==
    IF U_decision
    THEN [c \in DOMAIN U[0] |-> sign(U[ArgmaxAbsInColumn(U, c)][c])]
    ELSE [c \in DOMAIN VT |-> sign(VT[c][ArgmaxAbsInRow(VT, c)])]

svd_flip(U, VT, U_decision) ==
    LET signs == FlipSigns(U, VT, U_decision)
    IN  [U |-> [r \in DOMAIN U |-> [c \in DOMAIN U[r] |-> U[r][c] * signs[c]]],
         VT |-> [c \in DOMAIN VT |-> [z \in DOMAIN VT[c] |-> VT[c][z] * signs[c]]]]

\* -U
Negated(M) == [r \in DOMAIN M |-> [c \in DOMAIN M[r] |-> -M[r][c]]]

InitFlip ==
    /\ kernel = "svd_flip"
    /\ OthersIdle("svd_flip")
    /\ fDec \in BOOLEAN
    /\ \E k \in FRanks : \E l \in 1 .. FMaxLen : \E w \in 1 .. FMaxFollow :
          IF fDec
          THEN fU \in Matrices(l, k, FVals) /\ fVT \in Matrices(k, w, FVals)
          ELSE fU \in Matrices(w, k, FVals) /\ fVT \in Matrices(k, l, FVals)
    /\ fOut = Idle
    /\ fOutNeg = Idle
    /\ fPc = "first"

\* the decomposition (U, S, VT) is handed to svd_flip
FlipCall ==
    /\ kernel = "svd_flip"
    /\ fPc = "first"
    /\ fPc' = "second"
    /\ fOut' = svd_flip(fU, fVT, fDec)
    /\ UNCHANGED <<kernel, rVars, xVars, mVars, sVars, dVars, fU, fVT, fDec, fOutNeg>>

\* the decomposition (-U, S, -VT) of the same matrix is handed to svd_flip
FlipNegatedCall ==
    /\ kernel = "svd_flip"
    /\ fPc = "second"
    /\ fPc' = "returned"
    /\ fOutNeg' = svd_flip(Negated(fU), Negated(fVT), fDec)
    /\ UNCHANGED <<kernel, rVars, xVars, mVars, sVars, dVars, fU, fVT, fDec, fOut>>

NextFlip == FlipCall \/ FlipNegatedCall

SpecFlip == InitFlip /\ [][NextFlip]_vars

(***************************************************************************)
(* fastDot                                                                 *)
(*    size = A.shape; n = size[0]; p = size[1] if len(size) > 1 else 1     *)
(*    size = B.shape; k = size[1] if len(size) > 1 else 1                  *)
(*    size = C.shape; d = size[1] if len(size) > 1 else 1                  *)
(*    forward = k*n*(p+d); backward = p*d*(n+k)                            *)
(*    if forward <= backward: return (A @ B) @ C                           *)
(*    return A @ (B @ C)                                                   *)
(*                                                                         *)
(* A shape is a tuple; size[0] is its first entry.                         *)
(***************************************************************************)
DimVals == (0 .. DMaxDim) \cup {5, 1000}

Shapes == {<<a>> : a \in DimVals} \cup (DimVals \X DimVals)

\* size[1] if len(size) > 1 else 1
SecondOrOne(size) == IF Len(size) > 1 THEN size[2] ELSE 1

FastDotForward(A, B, C) ==
    SecondOrOne(B) * A[1] * (SecondOrOne(A) + SecondOrOne(C))

FastDotBackward(A, B, C) ==
    SecondOrOne(A) * SecondOrOne(C) * (A[1] + SecondOrOne(B))

\* if forward <= backward
FastDotPicksForwardStrict(forward, backward) == forward < backward
FastDotPicksForward(forward, backward) == forward <= backward

\* the operands chain: the last dimension of one is the first of the next
Chains(A, B) == A[Len(A)] = B[1]

InitDot ==
    /\ kernel = "fastDot"
    /\ OthersIdle("fastDot")
    /\ dA \in Shapes
    /\ dB \in Shapes
    /\ dC \in Shapes
    /\ Chains(dA, dB)
    /\ Chains(dB, dC)
    /\ dOrder = Idle

fastDot ==
    /\ kernel = "fastDot"
    /\ dOrder = Idle
    /\ dOrder' = IF FastDotPicksForward(FastDotForward(dA, dB, dC),
                                        FastDotBackward(dA, dB, dC))
                 THEN "forward" ELSE "backward"
    /\ UNCHANGED <<kernel, rVars, xVars, mVars, sVars, fVars, dA, dB, dC>>

NextDot == fastDot

SpecDot == InitDot /\ [][NextDot]_vars

Init == InitReflect \/ InitXXT \/ InitMemory \/ InitSvdCond \/ InitFlip \/ InitDot

Next == NextReflect \/ NextXXT \/ NextMemory \/ NextSvdCond \/ NextFlip \/ NextDot

Spec == Init /\ [][Next]_vars

(***************************************************************************)
(* The properties checked.                                                 *)
(***************************************************************************)

\* Row j of the sparse matrix at column z, and the dot product of two rows,
\* read off the stored entries directly.
C1_Entry(in, j, z) ==
    LET bs == {b \in in.rowIndices[j] .. in.rowIndices[j+1] - 1 : in.colPointer[b] = z}
    IN  IF bs = {} THEN 0 ELSE in.val[CHOOSE b \in bs : TRUE]

RECURSIVE C1_DotFrom(_, _, _, _)
C1_DotFrom(in, j, k, z) ==
    IF z >= in.p THEN 0
    ELSE C1_Entry(in, j, z) * C1_Entry(in, k, z) + C1_DotFrom(in, j, k, z + 1)

\* C1: once _XXT_sparse has returned, D[j][k] is the dot product of rows j and k
\* of X for every j > k, and 0 for every j <= k; D is n x n (also for n = 0, 1).
C1_LowerTriangleIsGram ==
    (kernel = "xxt" /\ XXTDone) =>
        /\ DOMAIN xD = 0 .. xIn.n - 1
        /\ \A j \in 0 .. xIn.n - 1 :
              /\ DOMAIN xD[j] = 0 .. xIn.n - 1
              /\ \A k \in 0 .. xIn.n - 1 :
                    xD[j][k] = IF j > k THEN C1_DotFrom(xIn, j, k, 0) ELSE 0

\* A finished call on three rows where D[2][1] sums two products (1*1 + 2*2).
C1_Witness ==
    /\ kernel = "xxt" /\ XXTDone
    /\ xIn.n = 3
    /\ xD[2][1] = 5
    /\ xWrites # {}

\* C2: after one call of reflect, for all i > j the result has
\* X[i][j] = X[j][i] = the X[i][j] of before the call; the diagonal and the
\* strict lower triangle are as before the call.
C2_ReflectMirrorsLower ==
    (kernel = "reflect" /\ rCall = 1 /\ ReflectDone) =>
        \A i, j \in DOMAIN rX :
            /\ i > j => (rX[i][j] = rX[j][i] /\ rX[j][i] = rX0[i][j])
            /\ i >= j => rX[i][j] = rX0[i][j]

\* A finished first call on a 3 x 3 matrix whose upper triangle it changed.
C2_Witness ==
    /\ kernel = "reflect" /\ rCall = 1 /\ ReflectDone
    /\ len(rX) = 3
    /\ rX0[0][2] # rX0[2][0]
    /\ rX[0][2] = rX0[2][0]

\* C7 as claimed, read when a second call has returned: some square matrix X
\* has reflect(reflect(X)) # reflect(X).
C7_SecondCallCorrupts ==
    (kernel = "reflect" /\ rCall = 2 /\ ReflectDone /\ rWrites # {}) =>
        \E n \in 0 .. MaxN : \E M \in SquareMatrices(n) :
            reflect_single(reflect_single(M)) # reflect_single(M)

\* C7, amended: reflect is idempotent; a second call on the result of the first
\* never changes it, neither while it runs nor when it is over.
C7_SecondCallChangesNothing ==
    (kernel = "reflect" /\ rCall = 2) => rX = rX1

\* A finished second call on a 3 x 3 matrix that the first call had changed.
C7_Witness ==
    /\ kernel = "reflect" /\ rCall = 2 /\ ReflectDone
    /\ len(rX) = 3
    /\ rX1 # rX0
    /\ rWrites # {}

\* C8: with n_jobs != 1, in every interleaving of the outer iterations: P is
\* never written; every iteration's R is an array of its own, all zero before
\* its scatter and holding just its row k afterwards; no two iterations write
\* the same cell of D; and the finished D is the D of the sequential loop.
C8_ParallelXXTIsSequential ==
    (kernel = "xxt" /\ xJobs # 1) =>
        /\ xBuf[0] = zeros(xIn.p)
        /\ \A k \in DOMAIN xRef :
              /\ xRef[k] # 0
              /\ \A h \in DOMAIN xRef : h # k => xRef[h] # xRef[k]
        /\ \A k \in XXTIterations :
              /\ xStage[k] = "scatter" => xBuf[xRef[k]] = zeros(xIn.p)
              /\ xStage[k] \in {"gather", "done"} =>
                    xBuf[xRef[k]] = Scatter(zeros(xIn.p), xIn, k)
        /\ \A a, b \in xWrites : a[2] = b[2] => a[1] = b[1]
        /\ XXTDone => xD = XXT_sparse(xIn)

\* Two iterations gathering at once, each from a scratch the other's differs from.
C8_Witness ==
    /\ kernel = "xxt" /\ xJobs # 1
    /\ xIn.n = 3
    /\ xStage[0] = "gather" /\ xStage[1] = "gather"
    /\ xBuf[xRef[0]] # xBuf[xRef[1]]
    /\ xBuf[xRef[0]] # zeros(xIn.p) /\ xBuf[xRef[1]] # zeros(xIn.p)

\* C9: with n_jobs != 1, in every interleaving of the outer iterations: no two
\* iterations write the same cell, no iteration reads a cell that any
\* iteration writes, and the finished matrix is that of the sequential loop.
C9_ParallelReflectIsSequential ==
    (kernel = "reflect" /\ rJobs # 1) =>
        /\ \A a, b \in rWrites : a[2] = b[2] => a[1] = b[1]
        /\ \A a \in rReads : \A b \in rWrites : a[2] # b[2]
        /\ ReflectDone => rX = reflect_single(IF rCall = 1 THEN rX0 ELSE rX1)

\* Iteration 2 is over before iteration 1 has begun.
C9_Witness ==
    /\ kernel = "reflect" /\ rJobs # 1 /\ rCall = 1
    /\ len(rX) = 3
    /\ rPc[2] = 2 /\ rPc[1] = 0
    /\ rX # rX0

\* C3 as claimed: memoryGram raises exactly when the Gram estimate
\* min(rows, cols)^2 * elementSize does not fit, and returns exactly when it
\* fits, an estimate fitting when estimate < free * 0.95 (so it raises at
\* equality).
C3_RaisesUnlessFits ==
    (kernel = "memoryGram" /\ mOut # "pending") =>
        LET rows == mShape[1]
            cols == mShape[2]
            side == IF rows <= cols THEN rows ELSE cols
            estimate == side * side * (IF mDtype = "float32" THEN 4 ELSE 8)
            fits == 100 * estimate < 95 * mFree
        IN  /\ mOut = "raised" <=> ~fits
            /\ mOut = "returned" <=> fits

\* C3, amended: memoryGram raises exactly when the Gram estimate
\* min(rows, cols)^2 * elementSize is greater than free * 0.95 and returns
\* otherwise; at equality it returns.
C3_RaisesWhenExceeds ==
    (kernel = "memoryGram" /\ mOut # "pending") =>
        LET rows == mShape[1]
            cols == mShape[2]
            side == IF rows <= cols THEN rows ELSE cols
            estimate == side * side * (IF mDtype = "float32" THEN 4 ELSE 8)
        IN  /\ mOut = "raised" <=> 100 * estimate > 95 * mFree
            /\ mOut = "returned" <=> 100 * estimate <= 95 * mFree

\* float32, 152 x 153, 95 KiB free: the estimate 152 * 152 * 4 = 92416 equals
\* 97280 * 0.95, and memoryGram has returned.
C3_Witness ==
    /\ kernel = "memoryGram" /\ mOut = "returned"
    /\ mShape = <<152, 153>> /\ mDtype = "float32" /\ mFree = 97280
    /\ 100 * GramUsage(mShape, mDtype) = 95 * mFree

\* the h-th smallest member of a set of indices
C4_Nth(set, h) == CHOOSE i \in set : Cardinality({g \in set : g < i}) = h

\* a = b, for floating-point numbers
C4_Same(a, b) == ~DyGT(a, b) /\ ~DyGT(b, a)

\* C4: for S sorted descending, _svdCond returns as many entries as S has
\* strictly above the threshold, at most len(S): those entries of S in their
\* order, each as S_i / (S_i^2 + alpha), which is 1 / S_i when alpha = 0, with
\* the same columns of U and rows of VT; nothing of an entry at or below the
\* threshold is returned.
C4_KeepsExactlyAboveThreshold ==
    (kernel = "svdCond" /\ sPc = "returned") =>
        LET keep == {i \in DOMAIN sS0 : DyGT(sS0[i], SvdThreshold(sT, sS0))}
            rank == Cardinality(keep)
        IN  /\ rank <= len(sS0)
            /\ DOMAIN sRet.S = 0 .. rank - 1
            /\ DOMAIN sRet.U = 0 .. rank - 1
            /\ DOMAIN sRet.VT = 0 .. rank - 1
            /\ \A h \in 0 .. rank - 1 :
                  LET x == sS0[C4_Nth(keep, h)]
                  IN  /\ sRet.S[h] # NaN
                      /\ sRet.S[h].num = x
                      /\ C4_Same(sRet.S[h].den.sq, DyTimes(x, x))
                      /\ sRet.S[h].den.plus = sAlpha
                      /\ sAlpha = 0 =>
                            C4_Same(DyTimes(sRet.S[h].num, x),
                                    DyTimes(Dy(1, 0), sRet.S[h].den.sq))
                      /\ sRet.U[h] = sU[C4_Nth(keep, h)]
                      /\ sRet.VT[h] = sVT[C4_Nth(keep, h)]
            /\ \A i \in DOMAIN sS0 \ keep : \A h \in 0 .. rank - 1 :
                  sRet.U[h] # sU[i] /\ sRet.VT[h] # sVT[i]

\* float32, S = [2^23, 1001, 1000], alpha = 0: the threshold is 1000, so the
\* last entry sits on it and is dropped, and two are returned.
C4_Witness ==
    /\ kernel = "svdCond" /\ sPc = "returned"
    /\ sT = "f" /\ sAlpha = 0
    /\ len(sS0) = 3
    /\ sS0[0] = Dy(1, 23) /\ sS0[1] = Dy(1001, 0) /\ sS0[2] = Dy(1000, 0)
    /\ len(sRet.S) = 2

C6_PicksCheaperOrder ==
    (kernel = "fastDot" /\ dOrder # Idle) =>
        LET n == dA[1]
            p == IF Len(dA) = 1 THEN 1 ELSE dA[2]
            k == IF Len(dB) = 1 THEN 1 ELSE dB[2]
            d == IF Len(dC) = 1 THEN 1 ELSE dC[2]
        IN  /\ dOrder = "forward" <=> k * n * (p + d) <= p * d * (n + k)
            /\ dOrder = "backward" <=> k * n * (p + d) > p * d * (n + k)
            /\ (dA = <<1000, 5>> /\ dB = <<5, 1000>> /\ dC = <<1000, 5>>) =>
                  dOrder = "backward"

\* A tie of two costs that are not zero, decided for the forward order.
C6_Witness ==
    /\ kernel = "fastDot" /\ dOrder = "forward"
    /\ dA = <<2, 2>> /\ dB = <<2, 2>> /\ dC = <<2, 2>>
    /\ FastDotForward(dA, dB, dC) = FastDotBackward(dA, dB, dC)

\* C10 as claimed: _svdCond overwrites only the entries of the caller's S that
\* are strictly above the threshold; an entry at or below it keeps its value,
\* and is never divided (so there is no 0 / 0).
C10_DroppedEntriesUntouched ==
    (kernel = "svdCond" /\ sPc = "returned") =>
        \A i \in DOMAIN sS0 :
            IF DyGT(sS0[i], SvdThreshold(sT, sS0))
            THEN sS[i] # sS0[i]
            ELSE sS[i] = sS0[i] /\ sS[i] # NaN
=============================================================================
